---- MODULE Spec2Model ----
(***************************************************************************)
(* AtomicDict (src/atomicdict/__init__.py) and DictTransaction             *)
(* (src/atomicdict/dict_transaction.py) as a state machine.                *)
(*                                                                         *)
(* One AtomicDict instance is shared by NumThreads Python threads.  Python *)
(* dict objects live in a heap (object id -> mapping), so that "copy",     *)
(* "same object" and "mutated in place" are different things.  A thread    *)
(* executes one call at a time, one source statement per step; the         *)
(* interpreter may switch threads between any two steps.                   *)
(***************************************************************************)
EXTENDS Integers, Sequences, FiniteSets, TLC

\* ---------------------------------------------------------------- bounds
NumThreads == 2
MaxCalls == 2

\* ------------------------------------------------------ values and dicts
Threads == 1..NumThreads
Keys == {"a", "b"}
\* Python's None (the default of default_value), encoded outside Values
NoneVal == -1

\* the reference held by a local that is not bound
Null == 0
\* the current store, plus the old store and the new store of every thread
NObj == 1 + 2 * NumThreads
ObjIds == 1..NObj

EmptyDict == [k \in {} |-> 0]

Range(s) == {s[i] : i \in 1..Len(s)}

\* dict.get(k, default_value)
get(d, k, default_value) == IF k \in DOMAIN d THEN d[k] ELSE default_value

\* update as it would be if it kept the value of a key already present
update_keep(d, write_dict) ==
  [k \in (DOMAIN d) \cup (DOMAIN write_dict) |->
     IF k \in DOMAIN d THEN d[k] ELSE write_dict[k]]

\* dict.update(write_dict) on the mapping d
update(d, write_dict) ==
  [k \in (DOMAIN d) \cup (DOMAIN write_dict) |->
     IF k \in DOMAIN write_dict THEN write_dict[k] ELSE d[k]]

\* if k in local_store: del local_store[k]
del_if_present(d, k) ==
  IF k \in DOMAIN d THEN [j \in (DOMAIN d) \ {k} |-> d[j]] ELSE d

\* for k in remove_keys: if k in local_store: del local_store[k]
RECURSIVE remove_all(_, _)
remove_all(d, remove_keys) ==
  IF remove_keys = <<>> THEN d
  ELSE remove_all(del_if_present(d, Head(remove_keys)), Tail(remove_keys))

\* {k: store.get(k, default_value) for k in read_keys}
read_dict(d, read_keys, default_value) ==
  [k \in Range(read_keys) |-> get(d, k, default_value)]

\* ---------------------------------------------------- inputs of the calls
Args(w, r, rm, dv) ==
  [write_dict |-> w, read_keys |-> r, remove_keys |-> rm, default_value |-> dv]

NoArgs == Args(EmptyDict, <<>>, <<>>, NoneVal)

\* the dicts AtomicDict(...) is constructed with: one key present, one absent
InitDicts == {[k \in {"a"} |-> 0]}

\* the argument lists atomic_write_read is called with: a write of all the
\* keys to one value, a write with a read of the written key, a read with a
\* removal (of a key twice), a key both written and removed
AWRArgs ==
  {Args([k \in Keys |-> 1], <<>>, <<>>, NoneVal),
   Args([k \in {"a"} |-> 2], <<"a", "b">>, <<>>, NoneVal),
   Args(EmptyDict, <<"b">>, <<"b", "b">>, 0),
   Args([k \in {"a"} |-> 1], <<"a">>, <<"a">>, NoneVal)}

\* the argument lists atomic_waitfree_read is called with (at least one key)
ReadArgs ==
  {Args(EmptyDict, <<"a", "b">>, <<>>, NoneVal)}

\* the arguments update, __setitem__, __delitem__ and pop are called with
UpdateDicts == {[k \in {"b"} |-> 1]}
SetKeys == {"b"}
DelKeys == {"a"}
PopKeys == {"a"}

VARIABLES
  store,        \* self.__immutable_store__ : <<ver, object id of the dict>>
  lock,         \* self.__update_store_lock__ : Null or the holding thread
  heap,         \* object id -> the mapping held by that dict object
  pc,           \* thread -> the statement it executes next
  op,           \* thread -> the public method it was called with
  args,         \* thread -> the arguments of that call
  l_ver,        \* thread -> local ver
  l_store,      \* thread -> local store (object id)
  l_new,        \* thread -> local local_store / the new dict (object id)
  read_values,  \* thread -> local read_values / the dict being built
  result,       \* thread -> mapping returned by the last finished call
  retval,       \* thread -> scalar returned by the last finished call
  err,          \* thread -> exception the last finished call raised
  tx,           \* thread -> the DictTransaction it holds (NoTx: none)
  success,      \* thread -> run_transaction's local success
  ret_value,    \* thread -> run_transaction's local ret_value
  attempts,     \* history: thread -> iterations run_transaction's loop began
  calls,        \* number of calls started so far
  hist,         \* history: every snapshot ever published, in order
  seen,         \* history: thread -> index in hist of the publication
                \*          that was current when it read the store / when
                \*          it replaced the store
  last_ver      \* history: thread -> the version its previous call observed

vars == <<store, lock, heap, pc, op, args, l_ver, l_store, l_new,
          read_values, result, retval, err, tx, success, ret_value, attempts,
          calls, hist, seen, last_ver>>

\* what only the transaction methods touch
txvars == <<tx, success, ret_value, attempts, last_ver>>

\* ------------------------------------------------------------ the heap
\* objects some reference still reaches
Live(st, ls, ln) ==
  ({st[2]} \cup {ls[t] : t \in Threads} \cup {ln[t] : t \in Threads}) \ {Null}

\* a dict object nobody references is reclaimed
Reclaim(h, st, ls, ln) ==
  [o \in ObjIds |-> IF o \in Live(st, ls, ln) THEN h[o] ELSE EmptyDict]

\* the object a newly created dict gets
NewObj == CHOOSE o \in ObjIds : o \notin Live(store, l_store, l_new) /\
             \A p \in ObjIds : p \notin Live(store, l_store, l_new) => o <= p

\* the one AtomicDict instance
TheDict == 1

\* no DictTransaction object
NoTx == [source |-> Null, ver |-> 0, data |-> Null, committed |-> FALSE]

\* one entry of the history of publications
Pub(ver, data, by, kind) == [ver |-> ver, data |-> data, by |-> by, kind |-> kind]

\* ------------------------------------------------------------ __init__
\* AtomicDict.__init__: (0, dict(*args, **kwargs)) and a free lock
Init ==
  \E d \in InitDicts :
    /\ store = <<0, 1>>
    /\ lock = Null
    /\ heap = [o \in ObjIds |-> IF o = 1 THEN d ELSE EmptyDict]
    /\ pc = [t \in Threads |-> "idle"]
    /\ op = [t \in Threads |-> "none"]
    /\ args = [t \in Threads |-> NoArgs]
    /\ l_ver = [t \in Threads |-> 0]
    /\ l_store = [t \in Threads |-> Null]
    /\ l_new = [t \in Threads |-> Null]
    /\ read_values = [t \in Threads |-> EmptyDict]
    /\ result = [t \in Threads |-> EmptyDict]
    /\ retval = [t \in Threads |-> NoneVal]
    /\ err = [t \in Threads |-> "none"]
    /\ tx = [t \in Threads |-> NoTx]
    /\ success = [t \in Threads |-> FALSE]
    /\ ret_value = [t \in Threads |-> NoneVal]
    /\ attempts = [t \in Threads |-> 0]
    /\ calls = 0
    /\ hist = <<Pub(0, d, Null, "init")>>
    /\ seen = [t \in Threads |-> 0]
    /\ last_ver = [t \in Threads |-> 0]

\* the calls that end having bound ver to the version of the store
ObservingOps == {"atomic_write_read", "atomic_waitfree_read", "ver", "update",
                 "__setitem__", "__delitem__", "pop", "clear"}

\* a thread enters a public method: its locals are fresh.  The threads are
\* interchangeable: of those that have made no call yet, the first makes
\* the next call
Enter(t, name, a, first) ==
  /\ pc[t] \in {"idle", "done"}
  /\ \A u \in Threads : (u < t /\ op[t] = "none") => op[u] # "none"
  /\ calls < MaxCalls
  /\ calls' = calls + 1
  /\ pc' = [pc EXCEPT ![t] = first]
  /\ op' = [op EXCEPT ![t] = name]
  /\ args' = [args EXCEPT ![t] = a]
  /\ l_ver' = [l_ver EXCEPT ![t] = 0]
  /\ read_values' = [read_values EXCEPT ![t] = EmptyDict]
  /\ result' = [result EXCEPT ![t] = EmptyDict]
  /\ retval' = [retval EXCEPT ![t] = NoneVal]
  /\ err' = [err EXCEPT ![t] = "none"]
  /\ seen' = [seen EXCEPT ![t] = 0]
  /\ tx' = [tx EXCEPT ![t] = NoTx]
  /\ success' = [success EXCEPT ![t] = FALSE]
  /\ ret_value' = [ret_value EXCEPT ![t] = NoneVal]
  /\ attempts' = [attempts EXCEPT ![t] = 0]
  /\ last_ver' = [last_ver EXCEPT ![t] =
                    IF op[t] \in ObservingOps THEN l_ver[t] ELSE last_ver[t]]
  /\ UNCHANGED <<store, lock, heap, l_store, l_new, hist>>

\* --------------------------------------------------- atomic_write_read
\* a call of atomic_write_read(write_dict, read_keys, remove_keys, default_value)
CallAtomicWriteRead(t) ==
  \E a \in AWRArgs : Enter(t, "atomic_write_read", a, "awr_lock")

\* AWRLock as it would be if the lock were not taken
AWRLock_nolock(t) ==
  /\ pc[t] = "awr_lock"
  /\ lock' = t
  /\ pc' = [pc EXCEPT ![t] = "awr_compute"]
  /\ UNCHANGED txvars
  /\ UNCHANGED <<store, heap, op, args, l_ver, l_store, l_new, read_values,
                 result, retval, err, calls, hist, seen>>

\* with self.__update_store_lock__: (entry)
AWRLock(t) ==
  /\ pc[t] = "awr_lock"
  /\ lock = Null
  /\ lock' = t
  /\ pc' = [pc EXCEPT ![t] = "awr_compute"]
  /\ UNCHANGED txvars
  /\ UNCHANGED <<store, heap, op, args, l_ver, l_store, l_new, read_values,
                 result, retval, err, calls, hist, seen>>

\* awr_read_values as it would be if the values were read after the update
awr_read_values_after(d, a) ==
  read_dict(update(d, a.write_dict), a.read_keys, a.default_value)

\* read_values = {k: store.get(k, default_value) for k in read_keys}
awr_read_values(d, a) == read_dict(d, a.read_keys, a.default_value)

\* copy_target as it would be if the store were updated in place
copy_target_inplace(t, store_obj) == store_obj

\* local_store = store.copy(): the object local_store names
copy_target(t, store_obj) == NewObj

\* ver, store = self.__immutable_store__; read_values = {...};
\* local_store = store.copy(); local_store.update(write_dict);
\* for k in remove_keys: if k in local_store: del local_store[k]
\* (one read of the shared store, then statements on the thread's own objects)
AWRCompute(t) ==
  /\ pc[t] = "awr_compute"
  /\ LET ver == store[1]
         store_obj == store[2]
         o == copy_target(t, store_obj)
         copied == [heap EXCEPT ![o] = heap[store_obj]]
         updated == [copied EXCEPT ![o] = update(copied[o], args[t].write_dict)]
     IN /\ l_ver' = [l_ver EXCEPT ![t] = ver]
        /\ l_store' = [l_store EXCEPT ![t] = store_obj]
        /\ read_values' = [read_values EXCEPT ![t] =
                             awr_read_values(heap[store_obj], args[t])]
        /\ l_new' = [l_new EXCEPT ![t] = o]
        /\ heap' = [updated EXCEPT ![o] = remove_all(updated[o], args[t].remove_keys)]
  /\ pc' = [pc EXCEPT ![t] = "awr_publish"]
  /\ UNCHANGED txvars
  /\ UNCHANGED <<store, lock, op, args, result, retval, err, calls, hist, seen>>

\* AWRPublish as it would be if the new store were not installed
AWRPublish_lost(t) ==
  /\ pc[t] = "awr_publish"
  /\ hist' = Append(hist, Pub(l_ver[t] + 1, heap[l_new[t]], t, "write"))
  /\ seen' = [seen EXCEPT ![t] = Len(hist)]
  /\ pc' = [pc EXCEPT ![t] = "awr_return"]
  /\ UNCHANGED txvars
  /\ UNCHANGED <<store, lock, heap, op, args, l_ver, l_store, l_new,
                 read_values, result, retval, err, calls>>

\* self.__immutable_store__ = (ver + 1, local_store)
AWRPublish(t) ==
  /\ pc[t] = "awr_publish"
  /\ store' = <<l_ver[t] + 1, l_new[t]>>
  /\ hist' = Append(hist, Pub(l_ver[t] + 1, heap[l_new[t]], t, "write"))
  /\ seen' = [seen EXCEPT ![t] = Len(hist)]
  /\ pc' = [pc EXCEPT ![t] = "awr_return"]
  /\ UNCHANGED txvars
  /\ UNCHANGED <<lock, heap, op, args, l_ver, l_store, l_new, read_values,
                 result, retval, err, calls>>

\* what the public method that called atomic_write_read returns: the call
\* itself returns read_values, pop returns res[key], the others return None
returned_dict(name, res) ==
  IF name = "atomic_write_read" THEN res ELSE EmptyDict

returned_value(name, a, res) ==
  IF name = "pop" THEN res[a.read_keys[1]] ELSE NoneVal

\* AWRReturn as it would be if the lock were not released on return
AWRReturn_held(t) ==
  /\ pc[t] = "awr_return"
  /\ result' = [result EXCEPT ![t] = returned_dict(op[t], read_values[t])]
  /\ retval' = [retval EXCEPT ![t] = returned_value(op[t], args[t], read_values[t])]
  /\ l_store' = [l_store EXCEPT ![t] = Null]
  /\ l_new' = [l_new EXCEPT ![t] = Null]
  /\ heap' = Reclaim(heap, store, l_store', l_new')
  /\ pc' = [pc EXCEPT ![t] = "done"]
  /\ UNCHANGED txvars
  /\ UNCHANGED <<store, lock, op, args, l_ver, read_values, err, calls, hist,
                 seen>>

\* return read_values (and the with block releases the lock)
AWRReturn(t) ==
  /\ pc[t] = "awr_return"
  /\ lock' = Null
  /\ result' = [result EXCEPT ![t] = returned_dict(op[t], read_values[t])]
  /\ retval' = [retval EXCEPT ![t] = returned_value(op[t], args[t], read_values[t])]
  /\ l_store' = [l_store EXCEPT ![t] = Null]
  /\ l_new' = [l_new EXCEPT ![t] = Null]
  /\ heap' = Reclaim(heap, store, l_store', l_new')
  /\ pc' = [pc EXCEPT ![t] = "done"]
  /\ UNCHANGED txvars
  /\ UNCHANGED <<store, op, args, l_ver, read_values, err, calls, hist, seen>>

\* ------------------------------------------------ atomic_waitfree_read
\* a call of atomic_waitfree_read(keys, default_value)
CallAtomicWaitfreeRead(t) ==
  \E a \in ReadArgs : Enter(t, "atomic_waitfree_read", a, "rd_snap")

\* RdSnapshot as it would be if the read waited for the lock to be free
RdSnapshot_locked(t) ==
  /\ pc[t] = "rd_snap"
  /\ lock = Null
  /\ l_ver' = [l_ver EXCEPT ![t] = store[1]]
  /\ l_store' = [l_store EXCEPT ![t] = store[2]]
  /\ seen' = [seen EXCEPT ![t] = Len(hist)]
  /\ pc' = [pc EXCEPT ![t] = "rd_get"]
  /\ UNCHANGED txvars
  /\ UNCHANGED <<store, lock, heap, op, args, l_new, read_values,
                 result, retval, err, calls, hist>>

\* ver, store = self.__immutable_store__
RdSnapshot(t) ==
  /\ pc[t] = "rd_snap"
  /\ l_ver' = [l_ver EXCEPT ![t] = store[1]]
  /\ l_store' = [l_store EXCEPT ![t] = store[2]]
  /\ seen' = [seen EXCEPT ![t] = Len(hist)]
  /\ pc' = [pc EXCEPT ![t] = "rd_get"]
  /\ UNCHANGED txvars
  /\ UNCHANGED <<store, lock, heap, op, args, l_new, read_values,
                 result, retval, err, calls, hist>>

\* one iteration of {k: store.get(k, default_value) for k in keys}; after
\* the last one the dict is returned
RdGet(t) ==
  /\ pc[t] = "rd_get"
  /\ LET k == args[t].read_keys[Cardinality(DOMAIN read_values[t]) + 1]
         rv == [j \in (DOMAIN read_values[t]) \cup {k} |->
                  IF j = k THEN get(heap[l_store[t]], k, args[t].default_value)
                  ELSE read_values[t][j]]
     IN /\ read_values' = [read_values EXCEPT ![t] = rv]
        /\ IF DOMAIN rv = Range(args[t].read_keys)
           THEN /\ result' = [result EXCEPT ![t] = rv]
                /\ l_store' = [l_store EXCEPT ![t] = Null]
                /\ heap' = Reclaim(heap, store, l_store', l_new)
                /\ pc' = [pc EXCEPT ![t] = "done"]
           ELSE UNCHANGED <<result, l_store, heap, pc>>
  /\ UNCHANGED txvars
  /\ UNCHANGED <<store, lock, op, args, l_ver, l_new, retval, err, calls,
                 hist, seen>>

\* ------------------------------------------------------------------ ver
\* a read of the property ver
CallVer(t) == Enter(t, "ver", NoArgs, "ver_read")

\* ver, store = self.__immutable_store__; return ver
VerRead(t) ==
  /\ pc[t] = "ver_read"
  /\ l_ver' = [l_ver EXCEPT ![t] = store[1]]
  /\ retval' = [retval EXCEPT ![t] = store[1]]
  /\ seen' = [seen EXCEPT ![t] = Len(hist)]
  /\ pc' = [pc EXCEPT ![t] = "done"]
  /\ UNCHANGED txvars
  /\ UNCHANGED <<store, lock, heap, op, args, l_store, l_new, read_values,
                 result, err, calls, hist>>

\* ------------------------------------------- update, set, del, pop
\* update(*args, **kwargs): atomic_write_read(write_dict=dict(*args, **kwargs))
CallUpdate(t) ==
  \E w \in UpdateDicts :
    Enter(t, "update", Args(w, <<>>, <<>>, NoneVal), "awr_lock")

\* __setitem__(key, item): atomic_write_read(write_dict={key: item})
CallSetItem(t) ==
  \E k \in SetKeys, v \in {2} :
    Enter(t, "__setitem__", Args([j \in {k} |-> v], <<>>, <<>>, NoneVal), "awr_lock")

\* __delitem__(key): atomic_write_read(remove_keys=(key,))
CallDelItem(t) ==
  \E k \in DelKeys :
    Enter(t, "__delitem__", Args(EmptyDict, <<>>, <<k>>, NoneVal), "awr_lock")

\* pop(key, default_value): atomic_write_read(read_keys=(key,),
\*   remove_keys=(key,), default_value=default_value)
CallPop(t) ==
  \E k \in PopKeys, dv \in {NoneVal} :
    Enter(t, "pop", Args(EmptyDict, <<k>>, <<k>>, dv), "awr_lock")

\* ---------------------------------------------------------------- clear
CallClear(t) == Enter(t, "clear", NoArgs, "clr_lock")

\* ClearLock as it would be if clear did not wait for the lock
ClearLock_nolock(t) ==
  /\ pc[t] = "clr_lock"
  /\ lock' = t
  /\ pc' = [pc EXCEPT ![t] = "clr_snap"]
  /\ UNCHANGED txvars
  /\ UNCHANGED <<store, heap, op, args, l_ver, l_store, l_new, read_values,
                 result, retval, err, calls, hist, seen>>

\* with self.__update_store_lock__: (entry)
ClearLock(t) ==
  /\ pc[t] = "clr_lock"
  /\ lock = Null
  /\ lock' = t
  /\ pc' = [pc EXCEPT ![t] = "clr_snap"]
  /\ UNCHANGED txvars
  /\ UNCHANGED <<store, heap, op, args, l_ver, l_store, l_new, read_values,
                 result, retval, err, calls, hist, seen>>

\* ver, store = self.__immutable_store__
ClearSnapshot(t) ==
  /\ pc[t] = "clr_snap"
  /\ l_ver' = [l_ver EXCEPT ![t] = store[1]]
  /\ l_store' = [l_store EXCEPT ![t] = store[2]]
  /\ pc' = [pc EXCEPT ![t] = "clr_publish"]
  /\ UNCHANGED txvars
  /\ UNCHANGED <<store, lock, heap, op, args, l_new, read_values,
                 result, retval, err, calls, hist, seen>>

\* self.__immutable_store__ = (ver + 1, dict())
ClearPublish(t) ==
  /\ pc[t] = "clr_publish"
  /\ LET o == NewObj
     IN /\ heap' = [heap EXCEPT ![o] = EmptyDict]
        /\ l_new' = [l_new EXCEPT ![t] = o]
        /\ store' = <<l_ver[t] + 1, o>>
  /\ hist' = Append(hist, Pub(l_ver[t] + 1, EmptyDict, t, "clear"))
  /\ seen' = [seen EXCEPT ![t] = Len(hist)]
  /\ pc' = [pc EXCEPT ![t] = "clr_unlock"]
  /\ UNCHANGED txvars
  /\ UNCHANGED <<lock, op, args, l_ver, l_store, read_values,
                 result, retval, err, calls>>

\* the with block releases the lock; clear returns None
ClearUnlock(t) ==
  /\ pc[t] = "clr_unlock"
  /\ lock' = Null
  /\ l_store' = [l_store EXCEPT ![t] = Null]
  /\ l_new' = [l_new EXCEPT ![t] = Null]
  /\ heap' = Reclaim(heap, store, l_store', l_new')
  /\ pc' = [pc EXCEPT ![t] = "done"]
  /\ UNCHANGED txvars
  /\ UNCHANGED <<store, op, args, l_ver, read_values, result, retval, err,
                 calls, hist, seen>>

\* ------------------------------------------------------- transactions
\* the type of a dict object: every dict the container stores was made by
\* dict(...), dict() or dict.copy(), an instance of the builtin dict
type_of(o) == "dict"

\* self.data = {} on an object: an instance of the builtin dict has no
\* attribute dictionary, the assignment raises AttributeError
setattr_data(o) == IF type_of(o) = "dict" THEN "AttributeError" ELSE "none"

\* UserDict.__init__(source_store): UserDict.__init__ runs with source_store
\* as its self, and its first statement is self.data = {}
UserDict_init(source_store) == setattr_data(source_store)

\* DictTransaction.__init__(self, source_atomic_dict, source_ver, source_store):
\* the exception it raises ("none": it returns), and the object it leaves:
\* no statement of it binds self.data
DictTransaction_init(source_atomic_dict, source_ver, source_store) ==
  [exc |-> UserDict_init(source_store),
   obj |-> [source |-> source_atomic_dict, ver |-> source_ver,
            data |-> Null, committed |-> FALSE]]

\* run_transaction's "except DictTransactionError:" is the only handler
caught(name, exc) == name = "run_transaction" /\ exc = "DictTransactionError"

\* with d.begin_transaction() as tx: ... (the call comes first)
CallWithTransaction(t) == Enter(t, "with_transaction", NoArgs, "bt_snap")

\* with d.begin_transaction() as tx: tx.abort()
CallWithAbort(t) == Enter(t, "with_abort", NoArgs, "bt_snap")

\* run_transaction(transaction_func): success = False; ret_value = None
CallRunTransaction(t) == Enter(t, "run_transaction", NoArgs, "rt_loop")

\* while not success: try: transaction = self.begin_transaction() ...
\* return ret_value
RTLoop(t) ==
  /\ pc[t] = "rt_loop"
  /\ IF ~success[t]
     THEN /\ pc' = [pc EXCEPT ![t] = "bt_snap"]
          /\ attempts' = [attempts EXCEPT ![t] = attempts[t] + 1]
          /\ UNCHANGED retval
     ELSE /\ pc' = [pc EXCEPT ![t] = "done"]
          /\ retval' = [retval EXCEPT ![t] = ret_value[t]]
          /\ UNCHANGED attempts
  /\ UNCHANGED <<store, lock, heap, op, args, l_ver, l_store, l_new,
                 read_values, result, err, tx, success, ret_value, calls,
                 hist, seen, last_ver>>

\* begin_transaction: ver, store = self.__immutable_store__
BTSnapshot(t) ==
  /\ pc[t] = "bt_snap"
  /\ l_ver' = [l_ver EXCEPT ![t] = store[1]]
  /\ l_store' = [l_store EXCEPT ![t] = store[2]]
  /\ seen' = [seen EXCEPT ![t] = Len(hist)]
  /\ pc' = [pc EXCEPT ![t] = "bt_init"]
  /\ UNCHANGED txvars
  /\ UNCHANGED <<store, lock, heap, op, args, l_new, read_values,
                 result, retval, err, calls, hist>>

\* begin_transaction: return DictTransaction(self, ver, store).  An exception
\* of the constructor leaves begin_transaction; run_transaction's handler
\* restarts the loop if it catches it, otherwise the call ends with it
BTConstruct(t) ==
  /\ pc[t] = "bt_init"
  /\ LET r == DictTransaction_init(TheDict, l_ver[t], l_store[t])
     IN IF r.exc = "none"
        THEN /\ tx' = [tx EXCEPT ![t] = r.obj]
             /\ pc' = [pc EXCEPT ![t] = "tx_body"]
             /\ UNCHANGED <<err, success>>
        ELSE IF caught(op[t], r.exc)
        THEN /\ success' = [success EXCEPT ![t] = FALSE]
             /\ pc' = [pc EXCEPT ![t] = "rt_loop"]
             /\ UNCHANGED <<err, tx>>
        ELSE /\ err' = [err EXCEPT ![t] = r.exc]
             /\ pc' = [pc EXCEPT ![t] = "done"]
             /\ UNCHANGED <<tx, success>>
  /\ l_store' = [l_store EXCEPT ![t] = Null]
  /\ heap' = Reclaim(heap, store, l_store', l_new)
  /\ UNCHANGED <<store, lock, op, args, l_ver, l_new, read_values, result,
                 retval, ret_value, attempts, calls, hist, seen, last_ver>>

Next ==
  \E t \in Threads :
    \/ CallAtomicWriteRead(t)
    \/ AWRLock(t)
    \/ AWRCompute(t)
    \/ AWRPublish(t)
    \/ AWRReturn(t)
    \/ CallAtomicWaitfreeRead(t)
    \/ RdSnapshot(t)
    \/ RdGet(t)
    \/ CallUpdate(t)
    \/ CallSetItem(t)
    \/ CallDelItem(t)
    \/ CallPop(t)
    \/ CallClear(t)
    \/ ClearLock(t)
    \/ ClearSnapshot(t)
    \/ ClearPublish(t)
    \/ ClearUnlock(t)
    \/ CallVer(t)
    \/ VerRead(t)
    \/ CallWithTransaction(t)
    \/ CallWithAbort(t)
    \/ CallRunTransaction(t)
    \/ RTLoop(t)
    \/ BTSnapshot(t)
    \/ BTConstruct(t)

Spec == Init /\ [][Next]_vars

\* ------------------------------------------------------------ history
\* the mapping of the publication that was current when thread t read the
\* store (for a writer: immediately before it replaced the store)
SeenData(t) == hist[seen[t]].data

\* the published mapping
Current == heap[store[2]]

\* the step of thread t that ends its call
Ends(t) == pc[t] # "done" /\ pc'[t] = "done"

\* =============================================================== claims

\* C1: no torn reads.  Every atomic_waitfree_read, also one that runs while
\* writers publish, returns for all its keys the values of one published
\* snapshot, the one that was current when it read the store; the values it
\* has collected so far are never a mix of two snapshots.
C1_NoTornRead ==
  \A t \in Threads :
    op[t] = "atomic_waitfree_read" =>
      /\ pc[t] = "rd_get" =>
           \A k \in DOMAIN read_values[t] :
             read_values[t][k] = get(SeenData(t), k, args[t].default_value)
      /\ pc[t] = "done" =>
           result[t] = read_dict(SeenData(t), args[t].read_keys,
                                 args[t].default_value)

\* a reader has read one of its two keys, and meanwhile a writer has
\* published a snapshot that differs in both keys
C1_Witness ==
  \E t \in Threads :
    /\ op[t] = "atomic_waitfree_read" /\ pc[t] = "rd_get"
    /\ Len(args[t].read_keys) = 2
    /\ Cardinality(DOMAIN read_values[t]) = 1
    /\ seen[t] < Len(hist)
    /\ hist[seen[t] + 1].kind = "write"
    /\ \A k \in Keys :
         get(hist[seen[t] + 1].data, k, NoneVal) # get(SeenData(t), k, NoneVal)

\* C2: version monotonicity.  The first snapshot has version 0, the i-th
\* publication after it has version i (each publication raises the version
\* by exactly 1, no two published snapshots share a version), and the
\* container's version is that of the last publication.
C2_VersionMonotonic ==
  /\ \A i \in 1..Len(hist) : hist[i].ver = i - 1
  /\ store[1] = Len(hist) - 1

\* two publications of different kinds by different threads have happened
C2_Witness ==
  /\ Len(hist) >= 3
  /\ \E i, j \in 2..Len(hist) :
       /\ hist[i].kind = "write" /\ hist[j].kind = "clear"
       /\ hist[i].by # hist[j].by

\* C5: before-semantics.  atomic_write_read returns, for every key of
\* read_keys, the value of the snapshot that was published immediately
\* before its own publication (default_value if the key is absent there).
C5_BeforeSemantics ==
  \A t \in Threads :
    (op[t] = "atomic_write_read" /\ pc[t] = "done") =>
      result[t] = read_dict(SeenData(t), args[t].read_keys,
                            args[t].default_value)

\* an atomic_write_read that wrote a key it also read has returned the
\* key's earlier value, which another thread's publication had set
C5_Witness ==
  \E t \in Threads :
    /\ op[t] = "atomic_write_read" /\ pc[t] = "done"
    /\ hist[seen[t]].by \notin {Null, t}
    /\ \E k \in Range(args[t].read_keys) \cap DOMAIN args[t].write_dict :
         /\ result[t][k] # args[t].write_dict[k]
         /\ result[t][k] # args[t].default_value

\* the steps of atomic_waitfree_read
RdStep(t) == RdSnapshot(t) \/ RdGet(t)

\* the number of steps a call of atomic_waitfree_read still has to take
RdRemaining(p, a, rv) ==
  IF p = "rd_snap" THEN Len(a.read_keys) + 1
  ELSE IF p = "rd_get" THEN Len(a.read_keys) - Cardinality(DOMAIN rv)
  ELSE 0

\* C6: wait-free read.  In every state a thread inside atomic_waitfree_read
\* can take its next step, whoever holds the lock; each step brings it one
\* step closer to its return (1 + number of keys steps in all); and no
\* step of it touches the lock, so it never keeps a writer from the lock.
C6_WaitFree ==
  /\ [](\A t \in Threads : pc[t] \in {"rd_snap", "rd_get"} => ENABLED RdStep(t))
  /\ [][\A t \in Threads :
          RdStep(t) =>
            /\ lock' = lock
            /\ RdRemaining(pc'[t], args'[t], read_values'[t])
                 = RdRemaining(pc[t], args[t], read_values[t]) - 1]_vars

\* a read has run from its first step to its return while another thread
\* held the lock: that thread published before the read began and has not
\* released the lock yet
C6_Witness ==
  \E t, w \in Threads :
    /\ t # w
    /\ op[t] = "atomic_waitfree_read" /\ pc[t] = "done"
    /\ lock = w /\ pc[w] \in {"awr_return", "clr_unlock"}
    /\ seen[t] = Len(hist)
    /\ hist[seen[t]].by = w
\* the key the body of a run_transaction call increments
IncKey == "a"

\* C8: begin_transaction returns a transaction of this container whose
\* base version is the version of the snapshot it read and whose data is a
\* new dict object with the content of that snapshot's dict.
C8_BeginReturnsCopy ==
  [][\A t \in Threads :
       (pc[t] = "bt_init" /\ pc'[t] # "bt_init") =>
         /\ tx'[t].source = TheDict
         /\ tx'[t].ver = l_ver[t]
         /\ tx'[t].data \notin {Null, l_store[t]}
         /\ heap'[tx'[t].data] = heap[l_store[t]]]_vars

\* C3: optimistic validation.  A transaction begun and then committed ends
\* in one of two ways: the commit succeeds, and then it has replaced exactly
\* the snapshot the transaction was begun from, by a snapshot of version
\* base version + 1; or the commit is rejected with the transaction error,
\* and then another publication had replaced that snapshot before.
C3_OptimisticValidation ==
  \A t \in Threads :
    (op[t] = "with_transaction" /\ pc[t] = "done") =>
      \/ /\ err[t] = "none"
         /\ Len(hist) > seen[t]
         /\ hist[seen[t] + 1].by = t
         /\ hist[seen[t] + 1].kind = "commit"
         /\ hist[seen[t] + 1].ver = l_ver[t] + 1
      \/ /\ err[t] = "DictTransactionError"
         /\ Len(hist) > seen[t]
         /\ hist[seen[t] + 1].by # t

\* C4: a failed commit changes nothing.  When a transaction was begun at a
\* version that another writer has advanced since, the step that ends its
\* commit raises the transaction error and leaves the published snapshot
\* (version and data) and the history of publications as they were.
C4_FailedCommitChangesNothing ==
  [][\A t \in Threads :
       (op[t] = "with_transaction" /\ Ends(t) /\ store[1] # l_ver[t]) =>
         /\ err'[t] = "DictTransactionError"
         /\ store' = store
         /\ heap'[store'[2]] = heap[store[2]]
         /\ hist' = hist]_vars

\* C7: no lost update.  When all the calls made so far are run_transaction
\* calls of different threads and all of them have ended, each has returned
\* and the value of the incremented key is its initial value plus the
\* number of calls.
C7_NoLostUpdate ==
  ( /\ calls > 0
    /\ calls = Cardinality({t \in Threads : op[t] = "run_transaction"})
    /\ \A t \in Threads : pc[t] \in {"idle", "done"} )
  => /\ \A t \in Threads : op[t] = "run_transaction" => err[t] = "none"
     /\ get(Current, IncKey, 0) = get(hist[1].data, IncKey, 0) + calls

\* C9: retry convergence.  A run_transaction call that has ended has
\* returned (no exception left it), and when every publication made since
\* the container was constructed is its own, it took exactly one attempt.
C9_RetryConvergence ==
  \A t \in Threads :
    (op[t] = "run_transaction" /\ pc[t] = "done") =>
      /\ err[t] = "none"
      /\ (\A i \in 2..Len(hist) : hist[i].by = t) => attempts[t] = 1

\* C10: the loop of run_transaction starts another iteration only after an
\* attempt whose transaction was not committed, and the call ends only
\* after an attempt whose commit succeeded, returning the value the body
\* computed in that attempt.
C10_RestartOnlyOnCommitError ==
  [][\A t \in Threads :
       op[t] = "run_transaction" =>
         /\ (pc'[t] = "rt_loop" /\ pc[t] \notin {"idle", "done", "rt_loop"}) =>
              (tx[t] # NoTx /\ ~tx[t].committed)
         /\ Ends(t) =>
              /\ err'[t] = "none"
              /\ tx[t] # NoTx /\ tx[t].committed
              /\ retval'[t] = ret_value[t]]_vars

\* the publications thread t made as commits after the one it began from
CommitsOf(t) ==
  {i \in (seen[t] + 1)..Len(hist) : hist[i].by = t /\ hist[i].kind = "commit"}

\* C11: explicit abort is terminal.  A scoped transaction whose body calls
\* abort() holds a transaction that is not committed, ends with the
\* transaction error raised by abort(), and no step of it, at the abort or
\* later, publishes anything.
C11_AbortIsTerminal ==
  [][\A t \in Threads :
       op[t] = "with_abort" =>
         /\ Ends(t) =>
              /\ err'[t] = "DictTransactionError"
              /\ tx[t] # NoTx /\ ~tx'[t].committed
         /\ op'[t] = "with_abort" =>
              \A i \in 1..Len(hist') : i > Len(hist) => hist'[i].by # t]_vars

\* C12: transaction isolation.  Beginning a transaction leaves the
\* published snapshot as it was and hands the body a working dict that is
\* an object of its own: neither the container nor any other thread refers
\* to it, so what the body sets or deletes in it cannot change the
\* published snapshot or be returned by any read.
C12_TransactionIsolation ==
  [][\A t \in Threads :
       (pc[t] = "bt_init" /\ pc'[t] # "bt_init") =>
         /\ pc'[t] = "tx_body"
         /\ tx'[t].data \notin
              {Null, store'[2]} \cup {l_store'[u] : u \in Threads}
                \cup {l_new'[u] : u \in Threads}
                \cup {tx'[u].data : u \in Threads \ {t}}
         /\ store' = store
         /\ heap'[store'[2]] = heap[store[2]]]_vars

\* C13: a successful commit publishes the data of the transaction, marks
\* the transaction as committed and returns.  A scoped transaction that did
\* not end with the transaction error ended without error, is_committed()
\* is true of it, and the publication after the snapshot it began from is
\* its commit, of version base version + 1.
C13_CommitMarksCommitted ==
  \A t \in Threads :
    (op[t] = "with_transaction" /\ pc[t] = "done"
       /\ err[t] # "DictTransactionError") =>
      /\ err[t] = "none"
      /\ tx[t] # NoTx /\ tx[t].committed
      /\ CommitsOf(t) = {seen[t] + 1}
      /\ hist[seen[t] + 1].ver = tx[t].ver + 1

\* C14: scoped use.  A scoped transaction whose body ends normally has made
\* exactly one commit attempt when it ends: it ends without error having
\* published one commit, or with the transaction error having published
\* none.  A scoped transaction whose body raises (here: by abort()) ends
\* with that error, is not committed and has published no commit.
C14_ScopedUse ==
  \A t \in Threads :
    pc[t] = "done" =>
      /\ op[t] = "with_transaction" =>
           /\ tx[t] # NoTx
           /\ err[t] \in {"none", "DictTransactionError"}
           /\ Cardinality(CommitsOf(t)) = (IF err[t] = "none" THEN 1 ELSE 0)
      /\ op[t] = "with_abort" =>
           /\ tx[t] # NoTx /\ ~tx[t].committed
           /\ err[t] = "DictTransactionError"
           /\ CommitsOf(t) = {}

\* the public methods that run atomic_write_read
AWROps == {"atomic_write_read", "update", "__setitem__", "__delitem__", "pop"}

\* the mapping a write with the arguments a is to publish over the mapping
\* pre: the keys of pre and of write_dict that are not in remove_keys, the
\* written keys with their written values, the other keys with their values
\* in pre
Expected(pre, a) ==
  [k \in ((DOMAIN pre) \cup (DOMAIN a.write_dict)) \ Range(a.remove_keys) |->
     IF k \in DOMAIN a.write_dict THEN a.write_dict[k] ELSE pre[k]]

\* C15: the mapping a call of atomic_write_read publishes is the mapping of
\* the snapshot it replaced with all the write entries applied and then all
\* the remove_keys deleted (a key both written and removed is absent, a
\* removed key that was absent raises nothing, the other keys keep their
\* values); and the dict object of a snapshot that a thread has read still
\* holds the mapping that was published with it.
C15_WriteThenRemove ==
  /\ \A t \in Threads :
       (op[t] \in AWROps /\ pc[t] \in {"awr_return", "done"}) =>
         /\ err[t] = "none"
         /\ hist[seen[t] + 1].by = t
         /\ hist[seen[t] + 1].data = Expected(SeenData(t), args[t])
  /\ \A t \in Threads :
       (l_store[t] # Null /\ seen[t] > 0) => heap[l_store[t]] = SeenData(t)

\* a call has published with a key both written and removed, over a
\* snapshot that held another key, and still holds that snapshot's dict
C15_Witness ==
  \E t \in Threads :
    /\ op[t] = "atomic_write_read" /\ pc[t] = "awr_return"
    /\ \E k \in (DOMAIN args[t].write_dict) \cap Range(args[t].remove_keys) :
         /\ k \in DOMAIN SeenData(t)
         /\ k \notin DOMAIN Current
    /\ \E j \in DOMAIN SeenData(t) :
         /\ j \notin (DOMAIN args[t].write_dict) \cup Range(args[t].remove_keys)
         /\ j \in DOMAIN Current /\ Current[j] = SeenData(t)[j]
    /\ heap[l_store[t]] = SeenData(t)

\* the statements at which a call binds ver, store to the current store
ObservePcs == {"rd_snap", "ver_read", "awr_compute", "clr_snap"}

\* C16: visibility and ordering.  Every step at which a call reads the
\* store observes the version (and a read: the mapping) of the latest
\* publication completed so far, hence of one not older than any
\* publication completed before the call started; the version it observes
\* is not less than the version the previous call of the same thread
\* observed; and the values a read returns are those of that snapshot.
C16_ReadsSeeLatest ==
  [][\A t \in Threads :
       /\ (pc[t] \in ObservePcs /\ pc'[t] # pc[t]) =>
            /\ l_ver'[t] = hist[Len(hist)].ver
            /\ l_ver'[t] >= last_ver[t]
            /\ \A i \in 1..Len(hist) : l_ver'[t] >= hist[i].ver
            /\ pc[t] = "rd_snap" => heap[l_store'[t]] = hist[Len(hist)].data
            /\ pc[t] = "ver_read" => retval'[t] = l_ver'[t]
       /\ (op[t] = "atomic_waitfree_read" /\ Ends(t)) =>
            /\ hist[seen[t]].ver = l_ver[t]
            /\ result'[t] = read_dict(hist[seen[t]].data, args[t].read_keys,
                                     args[t].default_value)]_vars

\* a read has returned the values of a publication that another thread
\* made and completed, different from the initial values
C16_Witness ==
  \E t, w \in Threads :
    /\ t # w
    /\ op[w] = "atomic_write_read" /\ pc[w] = "done"
    /\ op[t] = "atomic_waitfree_read" /\ pc[t] = "done"
    /\ l_ver[t] >= 1 /\ hist[l_ver[t] + 1].by = w
    /\ result[t] # read_dict(hist[1].data, args[t].read_keys,
                             args[t].default_value)

\* the statements between a writer's read of the snapshot and its
\* installing of the replacement
UpdatingPcs == {"awr_publish", "clr_publish"}

\* C17: mutual exclusion of publications.  At most one thread is between
\* reading the current snapshot and installing its replacement; that thread
\* holds the lock and the snapshot it read is still the current one; and
\* every publication made replaced the snapshot its writer had read.
C17_MutualExclusion ==
  /\ Cardinality({t \in Threads : pc[t] \in UpdatingPcs}) <= 1
  /\ \A t \in Threads :
       pc[t] \in UpdatingPcs =>
         /\ lock = t
         /\ store = <<l_ver[t], l_store[t]>>
  /\ \A t \in Threads :
       (op[t] \in AWROps \cup {"clear"}
          /\ pc[t] \in {"awr_return", "clr_unlock", "done"}) =>
         /\ hist[seen[t]].ver = l_ver[t]
         /\ hist[seen[t] + 1].ver = l_ver[t] + 1

\* a writer is about to install its replacement while a call of clear and
\* no other writer waits for the lock
C17_Witness ==
  \E t, u \in Threads :
    /\ t # u
    /\ pc[t] = "awr_publish" /\ lock = t
    /\ pc[u] = "clr_lock"

\* C18: a failed commit is terminal.  Once the version of the container
\* differs from the base version of a scoped transaction it differs from it
\* ever after (the version does not return to an earlier value); the
\* transaction then ends with its commit rejected by the transaction error,
\* uncommitted, and none of its steps publishes.
C18_FailedCommitIsTerminal ==
  [][\A t \in Threads :
       (op[t] = "with_transaction" /\ pc[t] \in {"bt_init", "done"}
          /\ pc'[t] \in {"bt_init", "done"} /\ store[1] # l_ver[t]) =>
         /\ l_ver'[t] = l_ver[t]
         /\ store'[1] # l_ver[t]
         /\ Ends(t) =>
              /\ err'[t] = "DictTransactionError"
              /\ tx'[t] # NoTx /\ ~tx'[t].committed
         /\ \A i \in 1..Len(hist') : i > Len(hist) => hist'[i].by # t]_vars

\* the statements inside a "with self.__update_store_lock__" block
LockedPcs == {"awr_compute", "awr_publish", "awr_return",
              "clr_snap", "clr_publish", "clr_unlock"}

\* a step of the thread that is inside such a block
LockedStep(t) ==
  \/ AWRCompute(t) \/ AWRPublish(t) \/ AWRReturn(t)
  \/ ClearSnapshot(t) \/ ClearPublish(t) \/ ClearUnlock(t)

PopKey(t) == args[t].read_keys[1]

\* C20: pop is an atomic read-and-remove.  A call of pop that has ended
\* raised nothing, returned the value its key had in the snapshot it
\* replaced (its default when the key was absent) and published a snapshot
\* without the key; and of two calls of pop of the same key with no
\* publication that holds the key between theirs, the later returned its
\* default, so that one call at most received the stored value.
C20_PopAtomic ==
  /\ \A t \in Threads :
       (op[t] = "pop" /\ pc[t] = "done") =>
         /\ err[t] = "none"
         /\ retval[t] = get(SeenData(t), PopKey(t), args[t].default_value)
         /\ hist[seen[t] + 1].by = t
         /\ PopKey(t) \notin DOMAIN hist[seen[t] + 1].data
  /\ \A t, u \in Threads :
       ( /\ op[t] = "pop" /\ pc[t] = "done"
         /\ op[u] = "pop" /\ pc[u] = "done"
         /\ PopKey(t) = PopKey(u) /\ seen[t] < seen[u]
         /\ \A i \in (seen[t] + 1)..seen[u] : PopKey(t) \notin DOMAIN hist[i].data )
       => retval[u] = args[u].default_value

\* two threads have popped the same key, present before: one received the
\* stored value, the other its default
C20_Witness ==
  \E t, u \in Threads :
    /\ t # u
    /\ op[t] = "pop" /\ pc[t] = "done"
    /\ op[u] = "pop" /\ pc[u] = "done"
    /\ PopKey(t) = PopKey(u)
    /\ PopKey(t) \in DOMAIN SeenData(t)
    /\ retval[t] = SeenData(t)[PopKey(t)]
    /\ retval[t] # args[t].default_value
    /\ retval[u] = args[u].default_value
====
